---- MODULE Spec2Model ----
(***************************************************************************)
(* Model of sumppi: a podcast-series JSON -> RSS/iTunes feed generator     *)
(* with a terminal menu (bubbletea) and an S3 upload sink.                 *)
(*                                                                         *)
(* Go strings are modelled as sequences of one-character strings, so that  *)
(* formatting and parsing are computed character by character.             *)
(***************************************************************************)
EXTENDS Integers, Sequences, FiniteSets, TLC

VARIABLES
    seconds,     \* formatDuration: the argument
    duration,    \* formatDuration: the returned string, or Pending
    seriesData,  \* generateRSSFeed: the argument
    clock,       \* the readings time.Now() returns during the first invocation
    clock2,      \* the readings time.Now() returns during the second invocation
    rss,         \* generateRSSFeed: what the first invocation returned, or Pending
    rss2,        \* generateRSSFeed: what the second invocation returned, or Pending
    episodes,    \* getLatestEpisodeDate: the argument
    now,         \* getLatestEpisodeDate: the reading of time.Now()
    latest,      \* getLatestEpisodeDate: what it returned, or LatestPending
    latestStringMax, \* what the string-maximum getLatestEpisodeDate returned
    s3Path,      \* parseS3Path: the argument
    parsedPath,  \* parseS3Path: what it returned, or PathPending
    m,           \* the menu's model: series, cursor, loading, status, s3Client
    cmds,        \* the commands in flight: started, result not yet received
    phase,       \* "cli", "running", "quit", "crashed", "exit0" or "exit1"
    started      \* the number of commands started so far

durationVars == <<seconds, duration>>
feedVars == <<seriesData, clock, clock2, rss, rss2>>
latestVars == <<episodes, now, latest, latestStringMax>>
pathVars == <<s3Path, parsedPath>>
progVars == <<m, cmds, phase, started>>
vars == <<durationVars, feedVars, latestVars, pathVars, progVars>>

\* the value of duration before formatDuration has returned
Pending == <<"pending">>

\* the value of rss and rss2 before generateRSSFeed has returned
FeedPending == [returned |-> FALSE, xml |-> <<>>, err |-> FALSE]

\* the value of latest before getLatestEpisodeDate has returned
LatestPending == [returned |-> FALSE, date |-> <<>>, err |-> "nil"]

\* the value of parsedPath before parseS3Path has returned
PathPending == [returned |-> FALSE, bucket |-> <<>>, key |-> <<>>, err |-> "nil"]

\* what a call that returned r leaves in its result variable
Returned(r) == [returned |-> TRUE, xml |-> r.xml, err |-> r.err]

------------------------------------------------------------------------------
(* Bounds of the model                                                      *)

MaxSeconds == 40000

\* the longest episode list handed to generateRSSFeed
MaxFeedEpisodes == 2

\* the longest episode list handed to getLatestEpisodeDate
MaxDatedEpisodes == 3

\* the most characters after the scheme in a path handed to parseS3Path
MaxPathRest == 4

\* the most commands the menu starts in one run
MaxCommands == 2

\* the largest byte length of the contiguous range of enclosure lengths
MaxLength == 2000

\* durations beyond the contiguous range: day and 100-hour boundaries
LargeSeconds == {86399, 86400, 359999, 360000, 360001, 3599999, 3600000}

\* byte lengths beyond the contiguous range: powers of ten and the largest int32
LargeLengths == {9999, 10000, 99999, 100000, 999999, 1000000, 123456789, 2147483647}

------------------------------------------------------------------------------
(* Strings and fmt.Sprintf verbs                                            *)

Digits == <<"0", "1", "2", "3", "4", "5", "6", "7", "8", "9">>

DigitChar(d) == Digits[d + 1]

IsDigit(c) == \E d \in 0..9 : Digits[d + 1] = c

DigitVal(c) == CHOOSE d \in 0..9 : Digits[d + 1] = c

RECURSIVE NatStr(_)
NatStr(n) == IF n < 10 THEN <<DigitChar(n)>>
             ELSE NatStr(n \div 10) \o <<DigitChar(n % 10)>>

\* fmt.Sprintf("%d", n)
SprintfD(n) == IF n < 0 THEN <<"-">> \o NatStr(-n) ELSE NatStr(n)

\* fmt.Sprintf("%02d", n): zero-padded to a minimum width of two; the sign
\* of a negative number counts toward the width
Sprintf02D(n) ==
    IF n < 0 THEN <<"-">> \o NatStr(-n)
    ELSE IF n < 10 THEN <<"0">> \o NatStr(n)
    ELSE NatStr(n)

\* Go's integer division truncates toward zero and % takes the dividend's sign
GoDiv(a, b) == IF a >= 0 THEN a \div b ELSE -((-a) \div b)

GoMod(a, b) == a - b * GoDiv(a, b)

------------------------------------------------------------------------------
(* package time: a Time is [unix, offset], the instant in seconds since    *)
(* 1970-01-01T00:00:00Z and the zone offset in seconds east of UTC.        *)

IsLeap(y) == (y % 4 = 0 /\ y % 100 # 0) \/ y % 400 = 0

DaysIn(mo, y) ==
    IF mo = 2 THEN (IF IsLeap(y) THEN 29 ELSE 28)
    ELSE IF mo \in {4, 6, 9, 11} THEN 30
    ELSE 31

\* days from 1970-01-01 to the civil date y-mo-d (proleptic Gregorian)
DaysFromCivil(y, mo, d) ==
    LET yy  == IF mo <= 2 THEN y - 1 ELSE y
        era == yy \div 400
        yoe == yy - era * 400
        mp  == IF mo > 2 THEN mo - 3 ELSE mo + 9
        doy == (153 * mp + 2) \div 5 + d - 1
        doe == yoe * 365 + yoe \div 4 - yoe \div 100 + doy
    IN  era * 146097 + doe - 719468

\* the civil date <<year, month, day>> of a day number counted from 1970-01-01
CivilFromDays(z) ==
    LET zz  == z + 719468
        era == zz \div 146097
        doe == zz - era * 146097
        yoe == (doe - doe \div 1460 + doe \div 36524 - doe \div 146096) \div 365
        doy == doe - (365 * yoe + yoe \div 4 - yoe \div 100)
        mp  == (5 * doy + 2) \div 153
        d   == doy - (153 * mp + 2) \div 5 + 1
        mo  == IF mp < 10 THEN mp + 3 ELSE mp - 9
        y   == yoe + era * 400 + (IF mo <= 2 THEN 1 ELSE 0)
    IN  <<y, mo, d>>

MonthNames ==
    << <<"J","a","n">>, <<"F","e","b">>, <<"M","a","r">>, <<"A","p","r">>,
       <<"M","a","y">>, <<"J","u","n">>, <<"J","u","l">>, <<"A","u","g">>,
       <<"S","e","p">>, <<"O","c","t">>, <<"N","o","v">>, <<"D","e","c">> >>

DayNames ==
    << <<"S","u","n">>, <<"M","o","n">>, <<"T","u","e">>, <<"W","e","d">>,
       <<"T","h","u">>, <<"F","r","i">>, <<"S","a","t">> >>

\* the digits of s at positions from..to are all decimal digits
DigitsAt(s, from, to) == \A i \in from..to : IsDigit(s[i])

RECURSIVE NumAt(_, _, _)
\* the number written at positions from..to of s
NumAt(s, from, to) ==
    IF to < from THEN 0 ELSE 10 * NumAt(s, from, to - 1) + DigitVal(s[to])

NoTime == [ok |-> FALSE, unix |-> 0, offset |-> 0]

\* time.Parse(time.RFC3339, s) on the layout "2006-01-02T15:04:05Z07:00"
\* written with two-digit fields and no fractional seconds; ok = FALSE is
\* the returned error.
ParseRFC3339(s) ==
    LET shape ==
            /\ Len(s) \in {20, 25}
            /\ DigitsAt(s, 1, 4) /\ s[5] = "-" /\ DigitsAt(s, 6, 7) /\ s[8] = "-"
            /\ DigitsAt(s, 9, 10) /\ s[11] = "T"
            /\ DigitsAt(s, 12, 13) /\ s[14] = ":" /\ DigitsAt(s, 15, 16)
            /\ s[17] = ":" /\ DigitsAt(s, 18, 19)
            /\ IF Len(s) = 20 THEN s[20] = "Z"
               ELSE /\ s[20] \in {"+", "-"}
                    /\ DigitsAt(s, 21, 22) /\ s[23] = ":" /\ DigitsAt(s, 24, 25)
    IN  IF ~shape THEN NoTime
        ELSE LET y   == NumAt(s, 1, 4)
                 mo  == NumAt(s, 6, 7)
                 d   == NumAt(s, 9, 10)
                 h   == NumAt(s, 12, 13)
                 mi  == NumAt(s, 15, 16)
                 sec == NumAt(s, 18, 19)
                 zh  == IF Len(s) = 20 THEN 0 ELSE NumAt(s, 21, 22)
                 zm  == IF Len(s) = 20 THEN 0 ELSE NumAt(s, 24, 25)
                 sgn == IF Len(s) = 25 /\ s[20] = "-" THEN -1 ELSE 1
                 off == sgn * (zh * 3600 + zm * 60)
                 inRange ==
                     /\ mo \in 1..12
                     /\ d >= 1 /\ d <= DaysIn(mo, y)
                     /\ h < 24 /\ mi < 60 /\ sec < 60
                     /\ zh <= 24 /\ zm <= 60
             IN  IF ~inRange THEN NoTime
                 ELSE [ok     |-> TRUE,
                       unix   |-> DaysFromCivil(y, mo, d) * 86400
                                    + h * 3600 + mi * 60 + sec - off,
                       offset |-> off]

\* the calendar fields of t as shown in t's own zone
Civil(t) ==
    LET loc  == t.unix + t.offset
        days == loc \div 86400
        rem  == loc % 86400
        ymd  == CivilFromDays(days)
    IN  [year |-> ymd[1], month |-> ymd[2], day |-> ymd[3],
         hour |-> rem \div 3600, minute |-> (rem % 3600) \div 60, second |-> rem % 60,
         weekday |-> (days + 4) % 7]

\* a year rendered by the layout element "2006": at least four digits
Year4(y) ==
    (IF y < 10 THEN <<"0", "0", "0">> ELSE IF y < 100 THEN <<"0", "0">>
     ELSE IF y < 1000 THEN <<"0">> ELSE <<>>) \o NatStr(y)

\* t.Format(time.RFC1123Z): "Mon, 02 Jan 2006 15:04:05 -0700"
FormatRFC1123Z(t) ==
    LET c   == Civil(t)
        abs == IF t.offset < 0 THEN -t.offset ELSE t.offset
    IN  DayNames[c.weekday + 1] \o <<",", " ">> \o Sprintf02D(c.day) \o <<" ">>
        \o MonthNames[c.month] \o <<" ">> \o Year4(c.year) \o <<" ">>
        \o Sprintf02D(c.hour) \o <<":">> \o Sprintf02D(c.minute) \o <<":">>
        \o Sprintf02D(c.second) \o <<" ">>
        \o <<(IF t.offset < 0 THEN "-" ELSE "+")>>
        \o Sprintf02D(abs \div 3600) \o Sprintf02D((abs % 3600) \div 60)

\* t.Format("Jan 2, 2006")
FormatJan2(t) ==
    LET c == Civil(t)
    IN  MonthNames[c.month] \o <<" ">> \o NatStr(c.day) \o <<",", " ">> \o Year4(c.year)

\* now.Add(d), d in seconds
Add(t, d) == [t EXCEPT !.unix = @ + d]

NotBefore(t, u) == t.unix >= u.unix

\* t.After(u): strictly later instant, whatever the zones
After(t, u) == t.unix > u.unix

------------------------------------------------------------------------------
(* formatDuration                                                           *)

formatDurationAlwaysHours(s) ==
    LET hours   == GoDiv(s, 3600)
        minutes == GoDiv(GoMod(s, 3600), 60)
        secs    == GoMod(s, 60)
    IN  SprintfD(hours) \o <<":">> \o Sprintf02D(minutes) \o <<":">> \o Sprintf02D(secs)

formatDuration(s) ==
    LET hours   == GoDiv(s, 3600)
        minutes == GoDiv(GoMod(s, 3600), 60)
        secs    == GoMod(s, 60)
    IN  IF hours > 0
        THEN SprintfD(hours) \o <<":">> \o Sprintf02D(minutes) \o <<":">> \o Sprintf02D(secs)
        ELSE SprintfD(minutes) \o <<":">> \o Sprintf02D(secs)

------------------------------------------------------------------------------
(* The data model: the fields of SeriesData and Episode the program reads   *)

DateJan1    == <<"2", "0", "2", "4", "-", "0", "1", "-", "0", "1", "T", "0", "0", ":", "0", "0", ":", "0", "0", "Z">>
DateMar15   == <<"2", "0", "2", "4", "-", "0", "3", "-", "1", "5", "T", "0", "0", ":", "0", "0", ":", "0", "0", "Z">>
DateOffset  == <<"2", "0", "2", "4", "-", "0", "3", "-", "1", "5", "T", "2", "3", ":", "3", "0", ":", "0", "0", "-", "0", "5", ":", "0", "0">>
DateInvalid == <<"i", "n", "v", "a", "l", "i", "d">>
DateEmpty   == <<>>
DateTie     == <<"2", "0", "2", "4", "-", "0", "3", "-", "1", "6", "T", "0", "4", ":", "3", "0", ":", "0", "0", "Z">>
DateWeek    == <<"2", "0", "2", "4", "-", "0", "3", "-", "2", "7", "T", "1", "0", ":", "0", "0", ":", "0", "0", "Z">>
DateWeek1s  == <<"2", "0", "2", "4", "-", "0", "3", "-", "2", "7", "T", "1", "0", ":", "0", "0", ":", "0", "1", "Z">>
DateMonth13 == <<"2", "0", "2", "4", "-", "1", "3", "-", "0", "1", "T", "0", "0", ":", "0", "0", ":", "0", "0", "Z">>

EpisodeA ==
    [GUID |-> <<"e", "1">>, RSSGUID |-> <<"r", "1">>, Title |-> <<"A">>, Description |-> <<"o", "n", "e">>,
     PublicationDate |-> DateMar15, AudioURL |-> <<"u", "/", "1">>,
     AudioLength |-> 0, AudioDuration |-> 45]

EpisodeB ==
    [GUID |-> <<"e", "2">>, RSSGUID |-> <<"r", "2">>, Title |-> <<"R", "&", "B">>, Description |-> <<"a", "<", "b">>,
     PublicationDate |-> DateOffset, AudioURL |-> <<"u", "?", "a", "=", "1", "&", "b", "=", "2">>,
     AudioLength |-> 1234567, AudioDuration |-> 3725]

EpisodeC ==
    [GUID |-> <<"e", "3">>, RSSGUID |-> <<"r", "3">>, Title |-> <<"\"", "C", "\"">>, Description |-> <<>>,
     PublicationDate |-> DateInvalid, AudioURL |-> <<"u", "/", "3">>,
     AudioLength |-> 98, AudioDuration |-> 0]

EpisodeD ==
    [GUID |-> <<"e", "4">>, RSSGUID |-> <<"r", "4">>, Title |-> <<"<", "/", "i", "t", "e", "m", ">">>, Description |-> <<"i", "t", "'", "s">>,
     PublicationDate |-> DateEmpty, AudioURL |-> <<"u", "/", "4">>,
     AudioLength |-> 1000, AudioDuration |-> 600]

FeedEpisodes == {EpisodeA, EpisodeB, EpisodeC, EpisodeD}

\* the sequences over S of length at most n
SeqUpTo(S, n) == UNION {[1..k -> S] : k \in 0..n}

SeriesOf(eps) ==
    [GUID |-> <<"s", "1">>, Title |-> <<"S", "h", "o", "w", " ", "&", " ", "T", "e", "l", "l">>, Author |-> <<"N", ".", "N", ".">>,
     Description |-> <<"a", "b", "o", "u", "t">>, CoverURL |-> <<"c", ".", "p", "n", "g">>, Episodes |-> eps]

\* the episode with publication date d
Dated(d) == [EpisodeA EXCEPT !.PublicationDate = d]

\* readings of the wall clock, in the local zone
NowEarly == ParseRFC3339(<<"2", "0", "2", "3", "-", "0", "1", "-", "0", "1", "T", "0", "8", ":", "0", "0", ":", "0", "0", "+", "0", "2", ":", "0", "0">>)
NowA == ParseRFC3339(<<"2", "0", "2", "4", "-", "0", "3", "-", "2", "0", "T", "1", "2", ":", "0", "0", ":", "0", "0", "+", "0", "2", ":", "0", "0">>)
NowB == ParseRFC3339(<<"2", "0", "2", "4", "-", "0", "3", "-", "2", "0", "T", "1", "2", ":", "0", "0", ":", "0", "1", "+", "0", "2", ":", "0", "0">>)
NowC == ParseRFC3339(<<"2", "0", "2", "5", "-", "0", "6", "-", "0", "1", "T", "0", "9", ":", "3", "0", ":", "0", "0", "+", "0", "3", ":", "0", "0">>)

------------------------------------------------------------------------------
(* package encoding/xml: a document is a sequence of lines, a line a        *)
(* sequence of markup tokens and of the characters of escaped text.        *)

\* xml.EscapeText on one character
EscapeChar(c) ==
    IF c = "&" THEN <<"&", "a", "m", "p", ";">>
    ELSE IF c = "<" THEN <<"&", "l", "t", ";">>
    ELSE IF c = ">" THEN <<"&", "g", "t", ";">>
    ELSE IF c = "\"" THEN <<"&", "#", "3", "4", ";">>
    ELSE IF c = "'" THEN <<"&", "#", "3", "9", ";">>
    ELSE <<c>>

RECURSIVE EscapeText(_)
EscapeText(s) == IF s = <<>> THEN <<>> ELSE EscapeChar(Head(s)) \o EscapeText(Tail(s))

Indent(depth) == IF depth = 0 THEN "" ELSE IF depth = 1 THEN "  "
                 ELSE IF depth = 2 THEN "    " ELSE "      "

RECURSIVE XmlAttrs(_)
\* attrs is a sequence of <<name, value>>
XmlAttrs(attrs) ==
    IF attrs = <<>> THEN <<>>
    ELSE <<" ", Head(attrs)[1], "=", "\"">> \o EscapeText(Head(attrs)[2]) \o <<"\"">>
         \o XmlAttrs(Tail(attrs))

XmlStart(depth, name, attrs) == <<Indent(depth), "<", name>> \o XmlAttrs(attrs) \o <<">">>

XmlEnd(depth, name) == <<Indent(depth), "</", name, ">">>

\* an element holding only character data: <name attrs>text</name> on one line
XmlLeaf(depth, name, attrs, text) ==
    XmlStart(depth, name, attrs) \o EscapeText(text) \o <<"</", name, ">">>

xmlHeader == <<"<?xml version=\"1.0\" encoding=\"UTF-8\"?>">>

marshalItem(item) ==
    << XmlStart(2, "item", <<>>),
       XmlLeaf(3, "title", <<>>, item.Title),
       XmlLeaf(3, "description", <<>>, item.Description),
       XmlLeaf(3, "pubDate", <<>>, item.PubDate),
       XmlLeaf(3, "guid", << <<"isPermaLink", item.GUID.IsPermaLink>> >>, item.GUID.Value),
       XmlLeaf(3, "enclosure", << <<"url", item.Enclosure.URL>>,
                                  <<"length", item.Enclosure.Length>>,
                                  <<"type", item.Enclosure.Type>> >>, <<>>),
       XmlLeaf(3, "itunes:duration", <<>>, item.ITunesDuration),
       XmlEnd(2, "item") >>

RECURSIVE marshalItems(_)
marshalItems(items) ==
    IF items = <<>> THEN <<>> ELSE marshalItem(Head(items)) \o marshalItems(Tail(items))

\* xml.MarshalIndent(feed, "", "  "): the struct holds only strings, which
\* always marshal, so the returned error is nil
xmlMarshalIndent(feed) ==
    [err  |-> FALSE,
     data |-> << XmlStart(0, "rss", << <<"version", feed.Version>>,
                                       <<"xmlns:itunes", feed.Xmlns>> >>),
                 XmlStart(1, "channel", <<>>),
                 XmlLeaf(2, "title", <<>>, feed.Channel.Title),
                 XmlLeaf(2, "description", <<>>, feed.Channel.Description),
                 XmlLeaf(2, "itunes:author", <<>>, feed.Channel.ITunesAuthor),
                 XmlLeaf(2, "itunes:image", << <<"href", feed.Channel.ITunesImage.Href>> >>, <<>>) >>
               \o marshalItems(feed.Channel.Items)
               \o << XmlEnd(1, "channel"), XmlEnd(0, "rss") >>]

------------------------------------------------------------------------------
(* generateRSSFeed                                                          *)

itemOfPaddedLength(episode, episodePubDate) ==
    [Title          |-> episode.Title,
     Description    |-> episode.Description,
     PubDate        |-> FormatRFC1123Z(episodePubDate),
     GUID           |-> [IsPermaLink |-> <<"false">>, Value |-> episode.GUID],
     Enclosure      |-> [URL    |-> episode.AudioURL,
                         Length |-> Sprintf02D(episode.AudioLength),
                         Type   |-> <<"audio/mpeg">>],
     ITunesDuration |-> formatDuration(episode.AudioDuration)]

itemOfRssGuid(episode, episodePubDate) ==
    [Title          |-> episode.Title,
     Description    |-> episode.Description,
     PubDate        |-> FormatRFC1123Z(episodePubDate),
     GUID           |-> [IsPermaLink |-> <<"false">>, Value |-> episode.RSSGUID],
     Enclosure      |-> [URL    |-> episode.AudioURL,
                         Length |-> SprintfD(episode.AudioLength),
                         Type   |-> <<"audio/mpeg">>],
     ITunesDuration |-> formatDuration(episode.AudioDuration)]

\* the Item built from one episode; episodePubDate is the parsed date or
\* the clock reading that replaced it
itemOf(episode, episodePubDate) ==
    [Title          |-> episode.Title,
     Description    |-> episode.Description,
     PubDate        |-> FormatRFC1123Z(episodePubDate),
     GUID           |-> [IsPermaLink |-> <<"false">>, Value |-> episode.GUID],
     Enclosure      |-> [URL    |-> episode.AudioURL,
                         Length |-> SprintfD(episode.AudioLength),
                         Type   |-> <<"audio/mpeg">>],
     ITunesDuration |-> formatDuration(episode.AudioDuration)]

RECURSIVE feedItemsDropBadDates(_, _)
feedItemsDropBadDates(eps, readings) ==
    IF eps = <<>> THEN <<>>
    ELSE LET episode == Head(eps)
             parsed  == ParseRFC3339(episode.PublicationDate)
         IN  IF ~parsed.ok THEN feedItemsDropBadDates(Tail(eps), readings)
             ELSE <<itemOf(episode, parsed)>> \o feedItemsDropBadDates(Tail(eps), readings)

RECURSIVE feedItemsAlwaysNow(_, _)
feedItemsAlwaysNow(eps, readings) ==
    IF eps = <<>> THEN <<>>
    ELSE <<itemOf(Head(eps), Head(readings))>>
         \o feedItemsAlwaysNow(Tail(eps), Tail(readings))

RECURSIVE feedItems(_, _)
\* the loop over seriesData.Episodes; readings holds what time.Now()
\* returns, one reading for each call in order
feedItems(eps, readings) ==
    IF eps = <<>> THEN <<>>
    ELSE LET episode == Head(eps)
             parsed  == ParseRFC3339(episode.PublicationDate)
         IN  IF ~parsed.ok
             THEN <<itemOf(episode, Head(readings))>> \o feedItems(Tail(eps), Tail(readings))
             ELSE <<itemOf(episode, parsed)>> \o feedItems(Tail(eps), readings)

\* feed := RSS{...} with the items of the loop over seriesData.Episodes
feedOf(sd, readings) ==
    [Version |-> <<"2.0">>,
     Xmlns   |-> <<"http://www.itunes.com/dtds/podcast-1.0.dtd">>,
     Channel |-> [Title        |-> sd.Title,
                  Description  |-> sd.Description,
                  ITunesAuthor |-> sd.Author,
                  ITunesImage  |-> [Href |-> sd.CoverURL],
                  Items        |-> feedItems(sd.Episodes, readings)]]

\* if err != nil { return "", err }; return xml.Header + string(xmlData), nil
withHeader(xmlData) ==
    IF xmlData.err THEN [xml |-> <<>>, err |-> TRUE]
    ELSE [xml |-> <<xmlHeader>> \o xmlData.data, err |-> FALSE]

generateRSSFeedFailOnBadDate(sd, readings) ==
    IF \E i \in 1..Len(sd.Episodes) : ~ParseRFC3339(sd.Episodes[i].PublicationDate).ok
    THEN [xml |-> <<>>, err |-> TRUE]
    ELSE withHeader(xmlMarshalIndent(feedOf(sd, readings)))

\* returns [xml, err]: the text and whether an error is returned
generateRSSFeed(sd, readings) == withHeader(xmlMarshalIndent(feedOf(sd, readings)))

\* the number of eps whose date does not parse: the calls of time.Now()
RECURSIVE NumUnparsed(_)
NumUnparsed(eps) ==
    IF eps = <<>> THEN 0
    ELSE (IF ParseRFC3339(Head(eps).PublicationDate).ok THEN 0 ELSE 1)
         + NumUnparsed(Tail(eps))

------------------------------------------------------------------------------
(* getLatestEpisodeDate (the parsing, filtering variant)                    *)

RECURSIVE latestScanNoFutureGuard(_, _, _)
latestScanNoFutureGuard(eps, oneWeekFromNow, acc) ==
    IF eps = <<>> THEN acc
    ELSE LET episode     == Head(eps)
             episodeTime == ParseRFC3339(episode.PublicationDate)
         IN  IF ~episodeTime.ok
             THEN latestScanNoFutureGuard(Tail(eps), oneWeekFromNow, acc)
             ELSE IF acc.latestDate = <<>> \/ After(episodeTime, acc.latestTime)
             THEN latestScanNoFutureGuard(Tail(eps), oneWeekFromNow,
                      [latestDate |-> episode.PublicationDate, latestTime |-> episodeTime])
             ELSE latestScanNoFutureGuard(Tail(eps), oneWeekFromNow, acc)

RECURSIVE latestScan(_, _, _)
\* the loop over episodes; acc holds latestDate and latestTime
latestScan(eps, oneWeekFromNow, acc) ==
    IF eps = <<>> THEN acc
    ELSE LET episode     == Head(eps)
             episodeTime == ParseRFC3339(episode.PublicationDate)
         IN  IF ~episodeTime.ok
             THEN latestScan(Tail(eps), oneWeekFromNow, acc)
             ELSE IF After(episodeTime, oneWeekFromNow)
             THEN latestScan(Tail(eps), oneWeekFromNow, acc)
             ELSE IF acc.latestDate = <<>> \/ After(episodeTime, acc.latestTime)
             THEN latestScan(Tail(eps), oneWeekFromNow,
                      [latestDate |-> episode.PublicationDate, latestTime |-> episodeTime])
             ELSE latestScan(Tail(eps), oneWeekFromNow, acc)

getLatestEpisodeDateNoEmptyCheck(eps, t) ==
    LET oneWeekFromNow == Add(t, 7 * 24 * 3600)
        acc == latestScan(eps, oneWeekFromNow, [latestDate |-> <<>>, latestTime |-> NoTime])
    IN  IF acc.latestDate = <<>>
        THEN [date |-> <<>>, err |-> "no valid episodes found"]
        ELSE [date |-> FormatJan2(acc.latestTime), err |-> "nil"]

\* returns [date, err]; err = "nil" when no error is returned
getLatestEpisodeDate(eps, t) ==
    IF Len(eps) = 0 THEN [date |-> <<>>, err |-> "no episodes found"]
    ELSE LET oneWeekFromNow == Add(t, 7 * 24 * 3600)
             acc == latestScan(eps, oneWeekFromNow,
                               [latestDate |-> <<>>, latestTime |-> NoTime])
         IN  IF acc.latestDate = <<>>
             THEN [date |-> <<>>, err |-> "no valid episodes found"]
             ELSE [date |-> FormatJan2(acc.latestTime), err |-> "nil"]

------------------------------------------------------------------------------
(* getLatestEpisodeDate (the string-maximum variant)                       *)

\* the byte of a character of the modelled dates (ASCII)
ByteOf(c) ==
    IF c = "+" THEN 43
    ELSE IF c = "-" THEN 45
    ELSE IF IsDigit(c) THEN 48 + DigitVal(c)
    ELSE IF c = ":" THEN 58
    ELSE IF c = "T" THEN 84
    ELSE IF c = "Z" THEN 90
    ELSE IF c = "a" THEN 97
    ELSE IF c = "d" THEN 100
    ELSE IF c = "i" THEN 105
    ELSE IF c = "l" THEN 108
    ELSE IF c = "n" THEN 110
    ELSE 118

\* a > b on Go strings: the order of the bytes at the first difference, a
\* proper prefix being the smaller
RECURSIVE StringGreater(_, _)
StringGreater(a, b) ==
    IF a = <<>> THEN FALSE
    ELSE IF b = <<>> THEN TRUE
    ELSE IF Head(a) # Head(b) THEN ByteOf(Head(a)) > ByteOf(Head(b))
    ELSE StringGreater(Tail(a), Tail(b))

stringMaxScanKeepFirst(eps, latestDate) == latestDate

\* the loop over episodes[1:]
RECURSIVE stringMaxScan(_, _)
stringMaxScan(eps, latestDate) ==
    IF eps = <<>> THEN latestDate
    ELSE IF StringGreater(Head(eps).PublicationDate, latestDate)
    THEN stringMaxScan(Tail(eps), Head(eps).PublicationDate)
    ELSE stringMaxScan(Tail(eps), latestDate)

\* the result for the greatest date string
formatOrRaw(latestDate, parsedTime) ==
    IF ~parsedTime.ok THEN [date |-> latestDate, err |-> "nil"]
    ELSE [date |-> FormatJan2(parsedTime), err |-> "nil"]

\* returns [date, err]
getLatestEpisodeDateStringMax(eps) ==
    IF Len(eps) = 0 THEN [date |-> <<>>, err |-> "no episodes found"]
    ELSE formatOrRaw(stringMaxScan(Tail(eps), eps[1].PublicationDate),
                     ParseRFC3339(stringMaxScan(Tail(eps), eps[1].PublicationDate)))

------------------------------------------------------------------------------
(* package strings, and parseS3Path                                         *)

\* strings.HasPrefix(s, prefix)
HasPrefix(s, prefix) == Len(s) >= Len(prefix) /\ SubSeq(s, 1, Len(prefix)) = prefix

\* strings.TrimPrefix(s, prefix)
TrimPrefix(s, prefix) ==
    IF HasPrefix(s, prefix) THEN SubSeq(s, Len(prefix) + 1, Len(s)) ELSE s

\* strings.SplitN(s, sep, 2) for a one-character sep: s cut at the first sep
SplitN2(s, sep) ==
    IF \A i \in 1..Len(s) : s[i] # sep THEN <<s>>
    ELSE LET i == CHOOSE k \in 1..Len(s) : s[k] = sep /\ \A j \in 1..(k - 1) : s[j] # sep
         IN  <<SubSeq(s, 1, i - 1), SubSeq(s, i + 1, Len(s))>>

S3Scheme == <<"s", "3", ":", "/", "/">>

\* returns [bucket, key, err]; err = "nil" when no error is returned
parseS3Path(p) ==
    IF ~HasPrefix(p, S3Scheme)
    THEN [bucket |-> <<>>, key |-> <<>>, err |-> "invalid S3 path: must start with s3://"]
    ELSE LET path  == TrimPrefix(p, S3Scheme)
             parts == SplitN2(path, "/")
         IN  IF Len(parts) # 2
             THEN [bucket |-> <<>>, key |-> <<>>,
                   err |-> "invalid S3 path: must be in format s3://bucket/key"]
             ELSE [bucket |-> parts[1], key |-> parts[2], err |-> "nil"]

\* returns [url, err]
generateS3URL(p) ==
    LET r == parseS3Path(p)
    IN  IF r.err # "nil" THEN [url |-> <<>>, err |-> r.err]
        ELSE [url |-> <<"https://">> \o r.bucket \o <<".s3.amazonaws.com/">> \o r.key,
              err |-> "nil"]

------------------------------------------------------------------------------
(* fetchSeriesData, and the responses of the feed API                       *)

NoData ==
    [GUID |-> <<>>, Title |-> <<>>, Author |-> <<>>, Description |-> <<>>,
     CoverURL |-> <<>>, Episodes |-> <<>>]

ServedEpisodeLists == {<<>>, <<EpisodeC, EpisodeA>>}

\* what http.Get and the JSON decoder can meet for a series: a transport
\* error, a status other than 200, a body that does not decode, or a series
Responses(guid) ==
    {[transport |-> TRUE, status |-> 0, json |-> FALSE, data |-> NoData],
     [transport |-> FALSE, status |-> 404, json |-> FALSE, data |-> NoData],
     [transport |-> FALSE, status |-> 200, json |-> FALSE, data |-> NoData]}
    \cup {[transport |-> FALSE, status |-> 200, json |-> TRUE,
           data |-> [SeriesOf(eps) EXCEPT !.GUID = guid]] : eps \in ServedEpisodeLists}

SeriesURL(guid) ==
    <<"https://appdata.richie.fi/books/feeds/v3/Nelonen/podcast_series/">>
    \o guid \o <<".json">>

\* returns [data, err]; err = <<>> when no error is returned
fetchSeriesData(guid, resp) ==
    IF resp.transport
    THEN [data |-> NoData, err |-> <<"failed to fetch series data: ", "transport error">>]
    ELSE IF resp.status # 200
    THEN [data |-> NoData,
          err |-> <<"API returned status code ">> \o SprintfD(resp.status)]
    ELSE IF ~resp.json
    THEN [data |-> NoData, err |-> <<"failed to decode JSON response: ", "syntax error">>]
    ELSE [data |-> resp.data, err |-> <<>>]

------------------------------------------------------------------------------
(* package path/filepath and strings, as generateFeed uses them             *)

RECURSIVE TrimTrailingSlashes(_)
TrimTrailingSlashes(path) ==
    IF Len(path) > 0 /\ path[Len(path)] = "/"
    THEN TrimTrailingSlashes(SubSeq(path, 1, Len(path) - 1))
    ELSE path

\* filepath.Base(path)
Base(path) ==
    IF path = <<>> THEN <<".">>
    ELSE LET p == TrimTrailingSlashes(path)
             slashes == {i \in 1..Len(p) : p[i] = "/"}
             last == IF slashes = {} THEN 0
                     ELSE CHOOSE i \in slashes : \A j \in slashes : j <= i
             b == SubSeq(p, last + 1, Len(p))
         IN  IF b = <<>> THEN <<"/">> ELSE b

\* strings.HasSuffix(s, suffix)
HasSuffix(s, suffix) ==
    Len(s) >= Len(suffix) /\ SubSeq(s, Len(s) - Len(suffix) + 1, Len(s)) = suffix

DotRss == <<".", "r", "s", "s">>

------------------------------------------------------------------------------
(* The terminal menu (bubbletea model) and its commands                     *)

NoSeries == [GUID |-> <<>>, S3Path |-> <<>>]

SeriesOne == [GUID |-> <<"g", "1">>, S3Path |-> <<"s", "3", ":", "/", "/", "b", "/", "o", "n", "e", ".", "r", "s", "s">>]
SeriesTwo == [GUID |-> <<"g", "2">>, S3Path |-> <<"s", "3", ":", "/", "/", "b", "/", "d", "i", "r", "/">>]
SeriesBad == [GUID |-> <<"g", "3">>, S3Path |-> <<"f", "e", "e", "d", "s">>]

\* what loadSeriesConfig can return: no series, one series, several series
Configs == {<<>>, <<SeriesBad>>, <<SeriesOne, SeriesTwo>>}

MenuNows == {NowA, NowC}

ActionKinds ==
    {"generateFeed", "generateAndUploadFeed", "copyURLToClipboard", "showLatestEpisodeDate"}

\* the first step of a command's function
FirstStep(kind) ==
    IF kind = "copyURLToClipboard" THEN "copy"
    ELSE IF kind = "showLatestEpisodeDate" THEN "latest"
    ELSE IF kind = "main" THEN "args"
    ELSE "fetch"

\* a command as Update returns it: the closure holds the model's cursor of
\* that moment; its locals are not yet set, and io, the input and output it
\* has performed, is empty
NewCmd(id, kind, cursor) ==
    [id |-> id, kind |-> kind, cursor |-> cursor, args |-> <<>>,
     pc |-> FirstStep(kind), series |-> NoSeries, seriesData |-> NoData,
     rssXML |-> <<>>, msg |-> <<>>, failed |-> FALSE, io |-> <<>>]

\* the command ends with message msg; failed tells an error from a success
Return(c, msg, failed) == [c EXCEPT !.pc = "return", !.msg = msg, !.failed = failed]

\* one input or output operation and whether it succeeded
Event(op, target, key, body, ok) ==
    [op |-> op, target |-> target, key |-> key, body |-> body, ok |-> ok]

\* command c after it has performed the operation e
Did(c, e) == [c EXCEPT !.io = Append(@, e)]

UpdateOnKeyNoClientCheck(mm, key) ==
    IF key \in {"ctrl+c", "q"} THEN [m |-> mm, cmd |-> "quit"]
    ELSE IF key \in {"up", "k"}
    THEN [m |-> IF mm.cursor > 0 THEN [mm EXCEPT !.cursor = @ - 1] ELSE mm, cmd |-> ""]
    ELSE IF key \in {"down", "j"}
    THEN [m |-> IF mm.cursor < Len(mm.series) - 1 THEN [mm EXCEPT !.cursor = @ + 1] ELSE mm,
          cmd |-> ""]
    ELSE IF key \in {"enter", " "}
    THEN (IF ~mm.loading
          THEN [m |-> [mm EXCEPT !.loading = TRUE], cmd |-> "generateFeed"]
          ELSE [m |-> mm, cmd |-> ""])
    ELSE IF key = "u"
    THEN (IF ~mm.loading
          THEN [m |-> [mm EXCEPT !.loading = TRUE], cmd |-> "generateAndUploadFeed"]
          ELSE [m |-> mm, cmd |-> ""])
    ELSE IF key = "c"
    THEN (IF ~mm.loading
          THEN [m |-> mm, cmd |-> "copyURLToClipboard"]
          ELSE [m |-> mm, cmd |-> ""])
    ELSE IF key = "d"
    THEN (IF ~mm.loading
          THEN [m |-> [mm EXCEPT !.loading = TRUE], cmd |-> "showLatestEpisodeDate"]
          ELSE [m |-> mm, cmd |-> ""])
    ELSE [m |-> mm, cmd |-> ""]

\* model.Update on a key: the new model and the kind of command returned
\* ("" for none, "quit" for tea.Quit)
UpdateOnKey(mm, key) ==
    IF key \in {"ctrl+c", "q"} THEN [m |-> mm, cmd |-> "quit"]
    ELSE IF key \in {"up", "k"}
    THEN [m |-> IF mm.cursor > 0 THEN [mm EXCEPT !.cursor = @ - 1] ELSE mm, cmd |-> ""]
    ELSE IF key \in {"down", "j"}
    THEN [m |-> IF mm.cursor < Len(mm.series) - 1 THEN [mm EXCEPT !.cursor = @ + 1] ELSE mm,
          cmd |-> ""]
    ELSE IF key \in {"enter", " "}
    THEN (IF ~mm.loading
          THEN [m |-> [mm EXCEPT !.loading = TRUE], cmd |-> "generateFeed"]
          ELSE [m |-> mm, cmd |-> ""])
    ELSE IF key = "u"
    THEN (IF ~mm.loading /\ mm.s3Client
          THEN [m |-> [mm EXCEPT !.loading = TRUE], cmd |-> "generateAndUploadFeed"]
          ELSE [m |-> mm, cmd |-> ""])
    ELSE IF key = "c"
    THEN (IF ~mm.loading
          THEN [m |-> mm, cmd |-> "copyURLToClipboard"]
          ELSE [m |-> mm, cmd |-> ""])
    ELSE IF key = "d"
    THEN (IF ~mm.loading
          THEN [m |-> [mm EXCEPT !.loading = TRUE], cmd |-> "showLatestEpisodeDate"]
          ELSE [m |-> mm, cmd |-> ""])
    ELSE [m |-> mm, cmd |-> ""]

\* the keys pressed: one key of each binding, and an unbound one
Keys == {"q", "k", "j", "enter", "u", "c", "d", "x"}

\* a key message reaches Update
UpdateKey(key) ==
    /\ phase = "running"
    /\ LET r == UpdateOnKey(m, key)
       IN  /\ (r.cmd \in ActionKinds => started < MaxCommands)
           /\ m' = r.m
           /\ phase' = IF r.cmd = "quit" THEN "quit" ELSE phase
           /\ IF r.cmd \in ActionKinds
              THEN /\ cmds' = cmds \cup {NewCmd(started + 1, r.cmd, r.m.cursor)}
                   /\ started' = started + 1
              ELSE UNCHANGED <<cmds, started>>

\* a feedResult message reaches Update
UpdateFeedResult(c) ==
    /\ phase = "running"
    /\ c.kind \in ActionKinds /\ c.pc = "return"
    /\ m' = [m EXCEPT !.loading = FALSE, !.status = c.msg]
    /\ cmds' = cmds \ {c}
    /\ UNCHANGED <<phase, started>>

\* the process is alive, so that goroutines still run: tea.Quit makes
\* Program.Run return and main exit, a panic or os.Exit ends it at once
Alive == phase \in {"cli", "running"}

\* main of the command-line program reads os.Args
CmdArgs(c) ==
    /\ Alive /\ c.pc = "args"
    /\ cmds' = (cmds \ {c}) \cup
          {IF Len(c.args) < 1
           THEN Return(c, <<"Usage: sumppi <series-guid>">>, TRUE)
           ELSE [c EXCEPT !.pc = "fetch", !.series = [GUID |-> c.args[1], S3Path |-> <<>>]]}
    /\ UNCHANGED <<m, phase, started>>

\* the series a command works on: m.series[m.cursor] of the captured model,
\* or the series named on the command line
IndexPanics(c) == c.kind \in ActionKinds /\ ~(c.cursor < Len(m.series))

SeriesAtMenuCursor(c) == IF c.kind = "main" THEN c.series ELSE m.series[m.cursor + 1]

SeriesFor(c) == IF c.kind = "main" THEN c.series ELSE m.series[c.cursor + 1]

\* series := m.series[m.cursor]; seriesData, err := fetchSeriesData(series.GUID)
\* and the early return on its error: the command after the request was
\* answered with resp; pc is "fetched" when it goes on
Fetched(c, resp) ==
    LET series == SeriesFor(c)
        r      == fetchSeriesData(series.GUID, resp)
        d      == Did(c, Event("GET", SeriesURL(series.GUID), <<>>, <<>>, r.err = <<>>))
    IN  IF r.err # <<>>
        THEN Return([d EXCEPT !.series = series],
                    <<"Error fetching series data: ">> \o r.err, TRUE)
        ELSE [d EXCEPT !.series = series, !.seriesData = r.data, !.pc = "fetched"]

ContinueDespiteError(f, next) == [f EXCEPT !.pc = next]

\* the command after the request: the next step of its function, or its end
Continue(f, next) == IF f.pc = "fetched" THEN [f EXCEPT !.pc = next] ELSE f

\* the first half of generateFeed, generateAndUploadFeed and main, up to the
\* answer of the feed API
CmdFetch(c) ==
    /\ Alive /\ c.pc = "fetch"
    /\ IF IndexPanics(c)
       THEN /\ phase' = "crashed"
            /\ UNCHANGED <<m, cmds, started>>
       ELSE \E resp \in Responses(SeriesFor(c).GUID) :
            \E f \in {Fetched(c, resp)} :
              /\ cmds' = (cmds \ {c}) \cup
                    {Continue(f, IF c.kind = "generateAndUploadFeed" THEN "upload"
                                 ELSE "write")}
              /\ UNCHANGED <<m, phase, started>>

\* rssXML, err := generateRSSFeed(seriesData), which returned r, and the early
\* return on its error: the command after the transformation; pc is unchanged
\* when it goes on
Transformed(c, r) ==
    IF r.err
    THEN Return(c, <<"Error generating RSS feed: ", "failed to marshal XML">>, TRUE)
    ELSE [c EXCEPT !.rssXML = r.xml]

\* the name of the file generateFeed and main write
Filename(c) ==
    IF c.kind = "main" THEN c.series.GUID \o DotRss
    ELSE LET filename == Base(c.series.S3Path)
         IN  IF ~HasSuffix(filename, DotRss) THEN c.series.GUID \o DotRss ELSE filename

\* " (<title> by <author>, <n> episodes)" of the success messages
Summary(sd) ==
    <<" (">> \o sd.Title \o <<" by ">> \o sd.Author \o <<", ">>
    \o SprintfD(Len(sd.Episodes)) \o <<" episodes)">>

\* err = os.WriteFile(filename, []byte(rssXML), 0644) and the return that
\* follows it, for the command t that holds rssXML
Written(t, ok) ==
    IF t.pc = "return" THEN t
    ELSE IF ~ok
    THEN Return(Did(t, Event("WriteFile", Filename(t), <<>>, t.rssXML, ok)),
                <<"Error writing RSS file: ", "write error">>, TRUE)
    ELSE IF t.kind = "main"
    THEN Return(Did(t, Event("WriteFile", Filename(t), <<>>, t.rssXML, ok)),
                <<"RSS feed written to ">> \o Filename(t), FALSE)
    ELSE Return(Did(t, Event("WriteFile", Filename(t), <<>>, t.rssXML, ok)),
                <<"RSS feed written to ">> \o Filename(t) \o Summary(t.seriesData), FALSE)

\* the second half of generateFeed and main: the transformation, then the
\* write of the file
CmdWriteFile(c) ==
    /\ Alive /\ c.pc = "write"
    /\ \E readings \in [1..NumUnparsed(c.seriesData.Episodes) -> MenuNows], ok \in BOOLEAN :
       \E t \in {Transformed(c, generateRSSFeed(c.seriesData, readings))} :
         cmds' = (cmds \ {c}) \cup {Written(t, ok)}
    /\ UNCHANGED <<m, phase, started>>

\* err = m.s3Client.UploadRSSContent(ctx, rssXML, series.S3Path) and the
\* return that follows it, for the command t that holds rssXML
Uploaded(t, parsed, ok) ==
    IF t.pc = "return" THEN t
    ELSE IF parsed.err # "nil"
    THEN Return(t, <<"Error uploading to S3: ", "failed to parse S3 path: ", parsed.err>>,
                TRUE)
    ELSE IF ~ok
    THEN Return(Did(t, Event("PutObject", parsed.bucket, parsed.key, t.rssXML, ok)),
                <<"Error uploading to S3: ", "failed to upload to S3: ", "put error">>, TRUE)
    ELSE Return(Did(t, Event("PutObject", parsed.bucket, parsed.key, t.rssXML, ok)),
                <<"RSS feed uploaded to ">> \o t.series.S3Path \o Summary(t.seriesData),
                FALSE)

\* the second half of generateAndUploadFeed: the transformation, then the
\* upload, where s.client of a nil m.s3Client is read once the path has parsed
CmdUpload(c) ==
    /\ Alive /\ c.pc = "upload"
    /\ \E readings \in [1..NumUnparsed(c.seriesData.Episodes) -> MenuNows], ok \in BOOLEAN :
       \E t \in {Transformed(c, generateRSSFeed(c.seriesData, readings))},
          parsed \in {parseS3Path(c.series.S3Path)} :
         IF t.pc # "return" /\ parsed.err = "nil" /\ ~m.s3Client
         THEN /\ phase' = "crashed"
              /\ UNCHANGED <<m, cmds, started>>
         ELSE /\ cmds' = (cmds \ {c}) \cup {Uploaded(t, parsed, ok)}
              /\ UNCHANGED <<m, phase, started>>

\* series := m.series[m.cursor]; url, err := generateS3URL(series.S3Path);
\* err = clipboard.WriteAll(url)
CmdCopy(c) ==
    /\ Alive /\ c.pc = "copy"
    /\ IF IndexPanics(c)
       THEN /\ phase' = "crashed"
            /\ UNCHANGED <<m, cmds, started>>
       ELSE LET series == SeriesFor(c)
                u      == generateS3URL(series.S3Path)
            IN  IF u.err # "nil"
                THEN /\ cmds' = (cmds \ {c}) \cup
                           {Return([c EXCEPT !.series = series],
                                   <<"Error generating URL: ", u.err>>, TRUE)}
                     /\ UNCHANGED <<m, phase, started>>
                ELSE \E ok \in BOOLEAN :
                       LET d == Did(c, Event("clipboard", u.url, <<>>, <<>>, ok))
                       IN
                       /\ cmds' = (cmds \ {c}) \cup
                             {IF ~ok
                              THEN Return([d EXCEPT !.series = series],
                                          <<"Error copying to clipboard: ", "clipboard error">>,
                                          TRUE)
                              ELSE Return([d EXCEPT !.series = series],
                                          <<"URL copied to clipboard: ">> \o u.url, FALSE)}
                       /\ UNCHANGED <<m, phase, started>>

\* latestDate, err := getLatestEpisodeDate(seriesData.Episodes) and the
\* return that follows it, for the command f that holds seriesData
LatestShown(f, r) ==
    IF f.pc = "return" THEN f
    ELSE IF r.err # "nil"
    THEN Return(f, <<"Error finding latest episode: ", r.err>>, TRUE)
    ELSE Return(f, <<"Latest episode date: ">> \o r.date, FALSE)

\* showLatestEpisodeDate: the request to the feed API, then the latest date
\* of the episodes it answered
CmdLatest(c) ==
    /\ Alive /\ c.pc = "latest"
    /\ IF IndexPanics(c)
       THEN /\ phase' = "crashed"
            /\ UNCHANGED <<m, cmds, started>>
       ELSE \E resp \in Responses(SeriesFor(c).GUID), t \in MenuNows :
            \E f \in {Fetched(c, resp)} :
            \E r \in {getLatestEpisodeDate(f.seriesData.Episodes, t)} :
              /\ cmds' = (cmds \ {c}) \cup {LatestShown(f, r)}
              /\ UNCHANGED <<m, phase, started>>

\* main of the command-line program ends: log.Fatalf or os.Exit(1) on an
\* error, a normal return otherwise
CliExit(c) ==
    /\ phase = "cli"
    /\ c.kind = "main" /\ c.pc = "return"
    /\ phase' = IF c.failed THEN "exit1" ELSE "exit0"
    /\ UNCHANGED <<m, cmds, started>>

------------------------------------------------------------------------------
(* The state of each part of the program before it is used                  *)

DurationIdle == seconds = 0 /\ duration = Pending

FeedIdle ==
    /\ seriesData = SeriesOf(<<>>)
    /\ clock = <<>> /\ clock2 = <<>>
    /\ rss = FeedPending /\ rss2 = FeedPending

LatestIdle ==
    /\ episodes = <<>> /\ now = NowA
    /\ latest = LatestPending /\ latestStringMax = LatestPending

PathIdle == s3Path = <<>> /\ parsedPath = PathPending

ProgIdle ==
    /\ m = [series |-> <<>>, cursor |-> 0, loading |-> FALSE, status |-> <<>>,
            s3Client |-> FALSE]
    /\ cmds = {} /\ phase = "exit0" /\ started = 0

------------------------------------------------------------------------------
(* Specification SpecDuration: formatDuration applied to bounded inputs     *)

InitDuration ==
    /\ seconds \in (0..MaxSeconds) \cup LargeSeconds
    /\ duration = Pending
    /\ FeedIdle /\ LatestIdle /\ PathIdle /\ ProgIdle

CallFormatDuration ==
    /\ duration = Pending
    /\ duration' = formatDuration(seconds)
    /\ UNCHANGED <<seconds, feedVars, latestVars, pathVars, progVars>>

NextDuration == CallFormatDuration

SpecDuration == InitDuration /\ [][NextDuration]_vars

------------------------------------------------------------------------------
(* Specification SpecFeed: generateRSSFeed invoked twice on one SeriesData, *)
(* each invocation under its own wall-clock readings                       *)

FeedNows == {NowA, NowC}

InitFeed ==
    /\ DurationIdle /\ LatestIdle /\ PathIdle /\ ProgIdle
    /\ seriesData \in {SeriesOf(eps) : eps \in SeqUpTo(FeedEpisodes, MaxFeedEpisodes)}
    /\ clock \in [1..MaxFeedEpisodes -> FeedNows]
    /\ clock2 \in [1..MaxFeedEpisodes -> FeedNows]
    /\ rss = FeedPending /\ rss2 = FeedPending

CallGenerateRSSFeed ==
    /\ ~rss.returned
    /\ rss' = Returned(generateRSSFeed(seriesData, clock))
    /\ UNCHANGED <<durationVars, latestVars, pathVars, progVars, seriesData, clock, clock2, rss2>>

CallGenerateRSSFeedAgain ==
    /\ rss.returned /\ ~rss2.returned
    /\ rss2' = Returned(generateRSSFeed(seriesData, clock2))
    /\ UNCHANGED <<durationVars, latestVars, pathVars, progVars, seriesData, clock, clock2, rss>>

NextFeed == CallGenerateRSSFeed \/ CallGenerateRSSFeedAgain

SpecFeed == InitFeed /\ [][NextFeed]_vars

------------------------------------------------------------------------------
(* Specification SpecEnclosure: generateRSSFeed invoked on series whose     *)
(* one episode has a byte length from a bounded range, and on the episode  *)
(* lists of SpecFeed                                                       *)

\* the episode with byte length n
Sized(n) == [EpisodeB EXCEPT !.AudioLength = n]

InitEnclosure ==
    /\ DurationIdle /\ LatestIdle /\ PathIdle /\ ProgIdle
    /\ seriesData \in {SeriesOf(<<Sized(n)>>) : n \in (0..MaxLength) \cup LargeLengths}
                      \cup {SeriesOf(eps) : eps \in SeqUpTo(FeedEpisodes, MaxFeedEpisodes)}
    /\ clock = [i \in 1..MaxFeedEpisodes |-> NowA]
    /\ clock2 = <<>>
    /\ rss = FeedPending /\ rss2 = FeedPending

NextEnclosure == CallGenerateRSSFeed

SpecEnclosure == InitEnclosure /\ [][NextEnclosure]_vars

------------------------------------------------------------------------------
(* Specification SpecLatest: getLatestEpisodeDate applied to bounded        *)
(* episode lists under several readings of the clock                       *)

LatestDates ==
    {DateJan1, DateMar15, DateOffset, DateTie, DateWeek, DateWeek1s,
     DateInvalid, DateMonth13}

LatestNows == {NowEarly, NowA, NowB, NowC}

InitLatest ==
    /\ DurationIdle /\ FeedIdle /\ PathIdle /\ ProgIdle
    /\ episodes \in SeqUpTo({Dated(d) : d \in LatestDates}, MaxDatedEpisodes)
    /\ now \in LatestNows
    /\ latest = LatestPending /\ latestStringMax = LatestPending

CallGetLatestEpisodeDate ==
    /\ ~latest.returned
    /\ LET r == getLatestEpisodeDate(episodes, now)
       IN  latest' = [returned |-> TRUE, date |-> r.date, err |-> r.err]
    /\ UNCHANGED <<durationVars, feedVars, pathVars, progVars, episodes, now, latestStringMax>>

NextLatest == CallGetLatestEpisodeDate

SpecLatest == InitLatest /\ [][NextLatest]_vars

------------------------------------------------------------------------------
(* Specification SpecVariants: both getLatestEpisodeDate functions of the   *)
(* repository applied to the same episode list                             *)

CallGetLatestEpisodeDateStringMax ==
    /\ ~latestStringMax.returned
    /\ LET r == getLatestEpisodeDateStringMax(episodes)
       IN  latestStringMax' = [returned |-> TRUE, date |-> r.date, err |-> r.err]
    /\ UNCHANGED <<durationVars, feedVars, pathVars, progVars, episodes, now, latest>>

NextVariants == CallGetLatestEpisodeDate \/ CallGetLatestEpisodeDateStringMax

SpecVariants == InitLatest /\ [][NextVariants]_vars

------------------------------------------------------------------------------
(* Specification SpecPath: parseS3Path applied to bounded paths             *)

PathSchemes == {<<"s", "3", ":", "/", "/">>, <<"s", "3", ":", "/">>, <<"S", "3", ":", "/", "/">>, <<>>}

PathChars == {"b", "k", "/"}

InitPath ==
    /\ DurationIdle /\ FeedIdle /\ LatestIdle /\ ProgIdle
    /\ s3Path \in {scheme \o rest : scheme \in PathSchemes,
                                    rest \in SeqUpTo(PathChars, MaxPathRest)}
    /\ parsedPath = PathPending

CallParseS3Path ==
    /\ ~parsedPath.returned
    /\ LET r == parseS3Path(s3Path)
       IN  parsedPath' = [returned |-> TRUE, bucket |-> r.bucket, key |-> r.key,
                          err |-> r.err]
    /\ UNCHANGED <<durationVars, feedVars, latestVars, progVars, s3Path>>

NextPath == CallParseS3Path

SpecPath == InitPath /\ [][NextPath]_vars

------------------------------------------------------------------------------
(* Specification SpecProgram: the program started either as the terminal    *)
(* menu (initialModel, then keys and result messages in any order) or as   *)
(* the command-line tool (main with os.Args)                               *)

\* initialModel(): the configured series, cursor 0, and the S3 client, nil
\* when NewS3Client failed
InitMenu ==
    /\ m \in {[series |-> cfg, cursor |-> 0, loading |-> FALSE, status |-> <<>>,
               s3Client |-> s3] : cfg \in Configs,
                                  s3 \in BOOLEAN}
    /\ cmds = {} /\ phase = "running" /\ started = 0

InitCli ==
    /\ m = [series |-> <<>>, cursor |-> 0, loading |-> FALSE, status |-> <<>>,
            s3Client |-> FALSE]
    /\ cmds \in {{[NewCmd(1, "main", 0) EXCEPT !.args = a]} :
                    a \in {<<>>, <<SeriesOne.GUID>>, <<SeriesTwo.GUID>>}}
    /\ phase = "cli" /\ started = 1

InitProgram ==
    /\ DurationIdle /\ FeedIdle /\ LatestIdle /\ PathIdle
    /\ (InitMenu \/ InitCli)

Others == <<durationVars, feedVars, latestVars, pathVars>>

NextProgram ==
    \/ \E key \in Keys : UpdateKey(key) /\ UNCHANGED Others
    \/ \E c \in cmds : UpdateFeedResult(c) /\ UNCHANGED Others
    \/ \E c \in cmds : CmdArgs(c) /\ UNCHANGED Others
    \/ \E c \in cmds : CmdFetch(c) /\ UNCHANGED Others
    \/ \E c \in cmds : CmdWriteFile(c) /\ UNCHANGED Others
    \/ \E c \in cmds : CmdUpload(c) /\ UNCHANGED Others
    \/ \E c \in cmds : CmdCopy(c) /\ UNCHANGED Others
    \/ \E c \in cmds : CmdLatest(c) /\ UNCHANGED Others
    \/ \E c \in cmds : CliExit(c) /\ UNCHANGED Others

SpecProgram == InitProgram /\ [][NextProgram]_vars

\* a step of the function of command id: its goroutine runs
CmdStep(id) ==
    \E c \in cmds :
        /\ c.id = id
        /\ (CmdArgs(c) \/ CmdFetch(c) \/ CmdWriteFile(c) \/ CmdUpload(c) \/ CmdCopy(c)
             \/ CmdLatest(c))
        /\ UNCHANGED Others

\* the message command id returned is handed to Update
Deliver(id) == \E c \in cmds : c.id = id /\ UpdateFeedResult(c) /\ UNCHANGED Others

\* command id can take a step: the state predicate that ENABLED of
\* <<CmdStep(id)>>_vars amounts to, every step changing cmds or phase
CanStep(id) == Alive /\ \E c \in cmds : c.id = id /\ c.pc # "return"

(* Specification SpecProgramFair: the same program when every command that *)
(* was started keeps running until it returns (the Go scheduler runs each  *)
(* goroutine, requests and writes end) and the event loop of Program.Run  *)
(* takes every message sent to it; nothing is assumed about the keys. The  *)
(* second conjunct is WF_vars(CmdStep(id)) written out with CanStep(id)    *)
(* for the enabling condition.                                             *)
SpecProgramFair ==
    /\ SpecProgram
    /\ \A id \in 1..MaxCommands : WF_vars(Deliver(id))
    /\ \A id \in 1..MaxCommands : []<>(~CanStep(id)) \/ []<><<CmdStep(id)>>_vars

------------------------------------------------------------------------------
(* Reading a rendered string back, independently of the formatting code    *)

RECURSIVE Fields(_, _)
\* the parts of s between occurrences of the character c
Fields(s, c) ==
    IF \A i \in 1..Len(s) : s[i] # c THEN <<s>>
    ELSE LET i == CHOOSE k \in 1..Len(s) : s[k] = c /\ \A j \in 1..(k - 1) : s[j] # c
         IN  <<SubSeq(s, 1, i - 1)>> \o Fields(SubSeq(s, i + 1, Len(s)), c)

AllDigits(s) == Len(s) >= 1 /\ \A i \in 1..Len(s) : IsDigit(s[i])

RECURSIVE ParseNat(_)
ParseNat(s) == IF Len(s) = 0 THEN 0
               ELSE 10 * ParseNat(SubSeq(s, 1, Len(s) - 1)) + DigitVal(s[Len(s)])

\* a decimal numeral without padding: no leading zero unless it is "0"
Unpadded(s) == AllDigits(s) /\ (Len(s) = 1 \/ s[1] # "0")

\* a decimal numeral of exactly two digits
TwoDigits(s) == AllDigits(s) /\ Len(s) = 2

------------------------------------------------------------------------------
(* C1: for every non-negative s, formatDuration(s) is H:MM:SS when          *)
(* s >= 3600 (hours unpadded, minutes and seconds two digits) and M:SS     *)
(* otherwise (minutes unpadded, seconds two digits); 0 -> "0:00",          *)
(* 45 -> "0:45", 125 -> "2:05", 3725 -> "1:02:05", 36000 -> "10:00:00".     *)
C1_FormatDuration ==
    duration # Pending =>
        LET parts == Fields(duration, ":")
        IN  /\ IF seconds >= 3600
               THEN /\ Len(parts) = 3
                    /\ Unpadded(parts[1]) /\ ParseNat(parts[1]) = seconds \div 3600
                    /\ TwoDigits(parts[2]) /\ ParseNat(parts[2]) = (seconds % 3600) \div 60
                    /\ TwoDigits(parts[3]) /\ ParseNat(parts[3]) = seconds % 60
               ELSE /\ Len(parts) = 2
                    /\ Unpadded(parts[1]) /\ ParseNat(parts[1]) = (seconds % 3600) \div 60
                    /\ TwoDigits(parts[2]) /\ ParseNat(parts[2]) = seconds % 60
            /\ (seconds = 0 => duration = <<"0", ":", "0", "0">>)
            /\ (seconds = 45 => duration = <<"0", ":", "4", "5">>)
            /\ (seconds = 125 => duration = <<"2", ":", "0", "5">>)
            /\ (seconds = 3725 => duration = <<"1", ":", "0", "2", ":", "0", "5">>)
            /\ (seconds = 36000 => duration = <<"1", "0", ":", "0", "0", ":", "0", "0">>)

C1_Witness ==
    /\ seconds = 36000
    /\ duration # Pending
    /\ Len(duration) = 8

------------------------------------------------------------------------------
(* Reading a generated document back                                        *)

\* the text an entity stands for
EntityChar(e) ==
    IF e = <<"&", "a", "m", "p", ";">> THEN "&"
    ELSE IF e = <<"&", "l", "t", ";">> THEN "<"
    ELSE IF e = <<"&", "g", "t", ";">> THEN ">"
    ELSE IF e = <<"&", "#", "3", "4", ";">> THEN "\""
    ELSE IF e = <<"&", "#", "3", "9", ";">> THEN "'"
    ELSE "?"

RECURSIVE Unescape(_)
Unescape(s) ==
    IF s = <<>> THEN <<>>
    ELSE IF Head(s) = "&"
         THEN LET j == CHOOSE k \in 1..Len(s) :
                            s[k] = ";" /\ \A h \in 1..(k - 1) : s[h] # ";"
              IN  <<EntityChar(SubSeq(s, 1, j))>> \o Unescape(SubSeq(s, j + 1, Len(s)))
         ELSE <<Head(s)>> \o Unescape(Tail(s))

\* the indices of S in increasing order
RECURSIVE Sorted(_)
Sorted(S) ==
    IF S = {} THEN <<>>
    ELSE LET lo == CHOOSE x \in S : \A y \in S : x <= y
         IN  <<lo>> \o Sorted(S \ {lo})

\* the element name of a line "<name ...": the token after "<"
LineName(line) == IF Len(line) >= 3 /\ line[2] = "<" THEN line[3] ELSE ""

\* the character data of a one-line element, unescaped
LineText(line) ==
    LET gt == CHOOSE k \in 1..Len(line) : line[k] = ">" /\ \A h \in 1..(k - 1) : line[h] # ">"
    IN  Unescape(SubSeq(line, gt + 1, Len(line) - 3))

\* the value of attribute name of a line's start tag, unescaped
AttrValue(line, name) ==
    LET at == CHOOSE k \in 2..Len(line) :
                  line[k] = name /\ line[k - 1] = " " /\ line[k + 1] = "="
        from == at + 3
        to == CHOOSE k \in from..Len(line) :
                  line[k] = "\"" /\ \A h \in from..(k - 1) : line[h] # "\""
    IN  Unescape(SubSeq(line, from, to - 1))

ItemOpenLine == <<"    ", "<", "item", ">">>

ItemCloseLine == <<"    ", "</", "item", ">">>

\* the <item> elements of a document, in document order, each as its lines
ItemBlocks(text) ==
    LET opens  == Sorted({i \in 1..Len(text) : text[i] = ItemOpenLine})
        closes == Sorted({i \in 1..Len(text) : text[i] = ItemCloseLine})
    IN  [k \in 1..Len(opens) |-> SubSeq(text, opens[k] + 1, closes[k] - 1)]

\* the line of a block whose element is name
FieldLine(block, name) == block[CHOOSE i \in 1..Len(block) : LineName(block[i]) = name]

HasField(block, name) == \E i \in 1..Len(block) : LineName(block[i]) = name

\* whether every item element is closed after it opens and before the next
WellNested(text) ==
    LET opens  == Sorted({i \in 1..Len(text) : text[i] = ItemOpenLine})
        closes == Sorted({i \in 1..Len(text) : text[i] = ItemCloseLine})
    IN  /\ Len(opens) = Len(closes)
        /\ \A k \in 1..Len(opens) :
              /\ opens[k] < closes[k]
              /\ (k < Len(opens) => closes[k] < opens[k + 1])

------------------------------------------------------------------------------
(* C2: for every SeriesData with N episodes generateRSSFeed produces a      *)
(* channel with exactly N items, the i-th built from the i-th episode: no  *)
(* re-sorting, no dropping, no duplication.                                *)
C2_ItemsInInputOrder ==
    rss.returned =>
        LET eps == seriesData.Episodes
        IN  /\ ~rss.err
            /\ WellNested(rss.xml)
            /\ Len(ItemBlocks(rss.xml)) = Len(eps)
            /\ \A i \in 1..Len(eps) :
                  LET b == ItemBlocks(rss.xml)[i]
                  IN  /\ HasField(b, "title") /\ HasField(b, "guid")
                      /\ HasField(b, "description") /\ HasField(b, "enclosure")
                      /\ LineText(FieldLine(b, "title")) = eps[i].Title
                      /\ LineText(FieldLine(b, "description")) = eps[i].Description
                      /\ LineText(FieldLine(b, "guid")) = eps[i].GUID
                      /\ AttrValue(FieldLine(b, "enclosure"), "url") = eps[i].AudioURL

C2_Witness ==
    /\ rss.returned
    /\ seriesData.Episodes = <<EpisodeD, EpisodeA>>
    /\ Len(ItemBlocks(rss.xml)) = 2
    /\ LineText(FieldLine(ItemBlocks(rss.xml)[1], "guid")) = EpisodeD.GUID

------------------------------------------------------------------------------
(* C3: an episode whose publication date fails to parse as RFC 3339        *)
(* (malformed or empty) does not make generateRSSFeed fail and is not      *)
(* dropped: its item carries the wall-clock time read during generation;   *)
(* an episode whose date parses keeps its own date.                        *)
C3_BadDateFallsBackToNow ==
    rss.returned =>
        LET eps == seriesData.Episodes
        IN  /\ ~rss.err
            /\ Len(ItemBlocks(rss.xml)) = Len(eps)
            /\ \A i \in 1..Len(eps) :
                  LET b      == ItemBlocks(rss.xml)[i]
                      parsed == ParseRFC3339(eps[i].PublicationDate)
                      k      == NumUnparsed(SubSeq(eps, 1, i))
                      shown  == LineText(FieldLine(b, "pubDate"))
                  IN  /\ LineText(FieldLine(b, "guid")) = eps[i].GUID
                      /\ shown = IF parsed.ok THEN FormatRFC1123Z(parsed)
                                 ELSE FormatRFC1123Z(clock[k])
                      /\ (eps[i].PublicationDate = DateMar15
                            => shown = <<"F", "r", "i", ",", " ", "1", "5", " ", "M", "a", "r", " ", "2", "0", "2", "4", " ", "0", "0", ":", "0", "0", ":", "0", "0", " ", "+", "0", "0", "0", "0">>)
                      /\ (eps[i].PublicationDate = DateOffset
                            => shown = <<"F", "r", "i", ",", " ", "1", "5", " ", "M", "a", "r", " ", "2", "0", "2", "4", " ", "2", "3", ":", "3", "0", ":", "0", "0", " ", "-", "0", "5", "0", "0">>)

C3_Witness ==
    /\ rss.returned /\ ~rss.err
    /\ seriesData.Episodes = <<EpisodeC, EpisodeA>>
    /\ clock[1] = NowC
    /\ LineText(FieldLine(ItemBlocks(rss.xml)[1], "pubDate"))
         = <<"S", "u", "n", ",", " ", "0", "1", " ", "J", "u", "n", " ", "2", "0", "2", "5", " ", "0", "9", ":", "3", "0", ":", "0", "0", " ", "+", "0", "3", "0", "0">>

------------------------------------------------------------------------------
\* the readings time.Now() hands out are the same in both invocations
SameReadingsUsed ==
    \A k \in 1..NumUnparsed(seriesData.Episodes) : clock[k] = clock2[k]

(* C8 as stated: generateRSSFeed is a pure function of its SeriesData      *)
(* input: two invocations on equal SeriesData, at any two wall-clock       *)
(* times, return the same text.                                            *)
C8_PureFunctionOfSeriesData ==
    (rss.returned /\ rss2.returned) => (rss2.xml = rss.xml /\ rss2.err = rss.err)

(* C8 amended: two invocations on equal SeriesData return the same text    *)
(* when every episode's publication date parses or when time.Now() hands   *)
(* the same readings to both; the SeriesData is not modified.              *)
C8_PureUpToClock ==
    [][ /\ seriesData' = seriesData
        /\ (rss2'.returned /\ SameReadingsUsed)
              => (rss2'.xml = rss'.xml /\ rss2'.err = rss'.err) ]_vars

C8_Witness ==
    /\ rss.returned /\ rss2.returned
    /\ Len(seriesData.Episodes) = 2
    /\ NumUnparsed(seriesData.Episodes) = 0
    /\ clock[1] # clock2[1]
    /\ rss2.xml = rss.xml

------------------------------------------------------------------------------
(* C4: getLatestEpisodeDate on an empty episode sequence returns the error *)
(* "no episodes found" and no date.                                        *)
C4_EmptyIsNoEpisodes ==
    (latest.returned /\ Len(episodes) = 0)
        => (latest.err = "no episodes found" /\ latest.date = <<>>)

C4_Witness ==
    /\ latest.returned /\ episodes = <<>> /\ latest.err # "nil"

------------------------------------------------------------------------------
\* episode i's date parses and is at most 7 days after now
Eligible(i) ==
    LET t == ParseRFC3339(episodes[i].PublicationDate)
    IN  t.ok /\ t.unix <= now.unix + 7 * 86400

------------------------------------------------------------------------------
\* "Jan 2, 2006": abbreviated month, unpadded day, four-digit year
IsJan2Form(s) ==
    LET parts == Fields(s, " ")
    IN  /\ Len(parts) = 3
        /\ \E mo \in 1..12 : parts[1] = MonthNames[mo]
        /\ Len(parts[2]) >= 2 /\ parts[2][Len(parts[2])] = ","
        /\ Unpadded(SubSeq(parts[2], 1, Len(parts[2]) - 1))
        /\ AllDigits(parts[3]) /\ Len(parts[3]) = 4

(* C6: when at least one episode has a parseable date not more than 7 days *)
(* after the current time, getLatestEpisodeDate succeeds and returns the   *)
(* date of an episode with the maximum parsed timestamp among exactly      *)
(* those episodes (exactly 7 days ahead is still eligible), formatted as   *)
(* abbreviated month, unpadded day, four-digit year.                       *)
C6_LatestEligibleDate ==
    (latest.returned /\ \E i \in 1..Len(episodes) : Eligible(i))
        => /\ latest.err = "nil"
           /\ IsJan2Form(latest.date)
           /\ \E i \in 1..Len(episodes) :
                 /\ Eligible(i)
                 /\ \A j \in 1..Len(episodes) :
                       Eligible(j) =>
                           ParseRFC3339(episodes[j].PublicationDate).unix
                             <= ParseRFC3339(episodes[i].PublicationDate).unix
                 /\ LET c == Civil(ParseRFC3339(episodes[i].PublicationDate))
                        parts == Fields(latest.date, " ")
                    IN  /\ parts[1] = MonthNames[c.month]
                        /\ ParseNat(SubSeq(parts[2], 1, Len(parts[2]) - 1)) = c.day
                        /\ ParseNat(parts[3]) = c.year
           /\ (episodes = <<Dated(DateJan1), Dated(DateMar15), Dated(DateInvalid)>>
                 => latest.date = <<"M", "a", "r", " ", "1", "5", ",", " ", "2", "0", "2", "4">>)
           /\ (episodes = <<Dated(DateMar15), Dated(DateWeek)>> /\ now = NowA
                 => latest.date = <<"M", "a", "r", " ", "2", "7", ",", " ", "2", "0", "2", "4">>)

C6_Witness ==
    /\ latest.returned
    /\ episodes = <<Dated(DateWeek), Dated(DateWeek1s), Dated(DateMar15)>>
    /\ now = NowA
    /\ latest.date = <<"M", "a", "r", " ", "2", "7", ",", " ", "2", "0", "2", "4">>

------------------------------------------------------------------------------
\* the part of s3Path after "s3://", when s3Path starts with it
AfterScheme == SubSeq(s3Path, 6, Len(s3Path))

StartsWithScheme ==
    /\ Len(s3Path) >= 5
    /\ s3Path[1] = "s" /\ s3Path[2] = "3" /\ s3Path[3] = ":"
    /\ s3Path[4] = "/" /\ s3Path[5] = "/"

(* C9: parseS3Path returns an error when the path does not start with      *)
(* "s3://" or when no key is present after the bucket ("s3://bucket" and   *)
(* "s3://bucket/" are errors); otherwise the bucket is the text before the *)
(* first "/" of the remainder and the key everything after it.             *)
C9_ParseS3Path ==
    parsedPath.returned =>
        IF ~StartsWithScheme THEN parsedPath.err # "nil"
        ELSE LET parts == Fields(AfterScheme, "/")
             IN  IF Len(parts) < 2 \/ (Len(parts) = 2 /\ parts[2] = <<>>)
                 THEN parsedPath.err # "nil"
                 ELSE /\ parsedPath.err = "nil"
                      /\ parsedPath.bucket = parts[1]
                      /\ parsedPath.bucket \o <<"/">> \o parsedPath.key = AfterScheme

------------------------------------------------------------------------------
\* the action commands that have been started and whose result message has
\* not reached Update
InFlight == {c \in cmds : c.kind \in ActionKinds}

(* C7: in the terminal menu at most one action command is in flight at any *)
(* time: an action key pressed while an earlier action has not delivered   *)
(* its result is rejected.                                                 *)
C7_OneActionInFlight == Cardinality(InFlight) <= 1

------------------------------------------------------------------------------
\* the positions in c's input and output of the operations named in ops
Positions(c, ops) == {i \in 1..Len(c.io) : c.io[i].op \in ops}

Fetches(c) == Positions(c, {"GET"})

Sinks(c) == Positions(c, {"WriteFile", "PutObject"})

\* the invocations that fetch: main, and every menu action but the copy
FetchingKinds ==
    {"main", "generateFeed", "generateAndUploadFeed", "showLatestEpisodeDate"}

\* the texts generateRSSFeed can return for sd, over the readings of the clock
FeedsOf(sd) ==
    {generateRSSFeed(sd, readings).xml :
        readings \in [1..NumUnparsed(sd.Episodes) -> MenuNows]}

\* c has asked the feed API and was answered with an error
FetchFailed(c) == \E i \in Fetches(c) : ~c.io[i].ok

\* a result of generateRSSFeed that is an error
TransformError == [xml |-> <<>>, err |-> TRUE]

(* C10: within one invocation or menu action the steps run in the order    *)
(* fetch, transform, write or upload, each at most once: a write or upload *)
(* comes after the one successful fetch and carries the text generated     *)
(* from the fetched data; after a failed fetch the action has ended with   *)
(* the error, with no second fetch, no generated text, no write and no     *)
(* upload; and when the transformation returns an error the action ends    *)
(* without having written or uploaded.                                     *)
C10_FetchTransformSinkOnce ==
    \A c \in cmds :
        /\ Cardinality(Fetches(c)) <= 1
        /\ Cardinality(Sinks(c)) <= 1
        /\ c.kind \notin FetchingKinds => Fetches(c) = {} /\ Sinks(c) = {}
        /\ \A i \in Sinks(c) :
             /\ \E j \in Fetches(c) : j < i /\ c.io[j].ok
             /\ c.io[i].body = c.rssXML
             /\ c.rssXML \in FeedsOf(c.seriesData)
             /\ c.pc = "return"
        /\ FetchFailed(c) =>
             /\ c.pc = "return" /\ c.failed
             /\ HasPrefix(c.msg, <<"Error fetching series data: ">>)
             /\ c.seriesData = NoData /\ c.rssXML = <<>>
             /\ Sinks(c) = {}
        /\ c.pc \in {"write", "upload"} =>
             /\ Cardinality(Fetches(c)) = 1 /\ ~FetchFailed(c)
             /\ \A ok \in BOOLEAN :
                  LET t == Transformed(c, TransformError)
                      e == IF c.pc = "write" THEN Written(t, ok)
                           ELSE Uploaded(t, parseS3Path(c.series.S3Path), ok)
                  IN  /\ e.pc = "return" /\ e.failed
                      /\ HasPrefix(e.msg, <<"Error generating RSS feed: ">>)
                      /\ e.io = c.io /\ e.rssXML = <<>>

\* a generate, upload or command-line invocation has ended on a failed fetch
C10_Witness ==
    /\ \E c \in cmds :
         /\ c.kind \in {"main", "generateFeed", "generateAndUploadFeed"}
         /\ c.pc = "return" /\ FetchFailed(c)
    /\ phase \in {"cli", "running"}

------------------------------------------------------------------------------
\* the series identifier in the URL of c's request to the feed API
FetchedGuid(c) ==
    LET target == c.io[CHOOSE i \in Fetches(c) : TRUE].target
    IN  SubSeq(target, 2, Len(target) - 1)

(* C11: when a generated feed is saved locally, by the command-line entry  *)
(* point or by the menu's generate-and-save action, the file written is    *)
(* named "<guid>.rss", guid being the identifier of the fetched series,    *)
(* whatever the series' configured storage path.                           *)
C11_FileNamedGuidRss ==
    \A c \in cmds :
        \A i \in Positions(c, {"WriteFile"}) :
            c.io[i].target = FetchedGuid(c) \o <<".", "r", "s", "s">>

------------------------------------------------------------------------------
\* the enclosure element of the i-th item of the returned document
EnclosureLine(i) == FieldLine(ItemBlocks(rss.xml)[i], "enclosure")

(* C12: for every episode the emitted enclosure carries the episode's      *)
(* audio URL unchanged, the fixed type "audio/mpeg", and a length that is  *)
(* the plain base-10 numeral of the episode's byte length: digits only,    *)
(* no grouping, no padding.                                                *)
C12_Enclosure ==
    rss.returned =>
        /\ Len(ItemBlocks(rss.xml)) = Len(seriesData.Episodes)
        /\ \A i \in 1..Len(seriesData.Episodes) :
              /\ HasField(ItemBlocks(rss.xml)[i], "enclosure")
              /\ AttrValue(EnclosureLine(i), "url") = seriesData.Episodes[i].AudioURL
              /\ AttrValue(EnclosureLine(i), "type") = <<"audio/mpeg">>
              /\ Unpadded(AttrValue(EnclosureLine(i), "length"))
              /\ ParseNat(AttrValue(EnclosureLine(i), "length"))
                    = seriesData.Episodes[i].AudioLength

\* a length of seven digits with zeros inside and a URL that needs escaping
C12_Witness ==
    /\ rss.returned
    /\ seriesData.Episodes = <<Sized(1000000)>>
    /\ AttrValue(EnclosureLine(1), "length") = <<"1", "0", "0", "0", "0", "0", "0">>
    /\ AttrValue(EnclosureLine(1), "url") = <<"u", "?", "a", "=", "1", "&", "b", "=", "2">>
    /\ AttrValue(EnclosureLine(1), "type") = <<"audio/mpeg">>

------------------------------------------------------------------------------
\* the guid element of the i-th item of the returned document
GuidLine(i) == FieldLine(ItemBlocks(rss.xml)[i], "guid")

(* C13: for every episode the emitted item's guid element has              *)
(* isPermaLink = "false" and its text is that episode's own GUID field,    *)
(* not the series GUID and not the episode's RSSGUID field.                *)
C13_ItemGuid ==
    rss.returned =>
        /\ Len(ItemBlocks(rss.xml)) = Len(seriesData.Episodes)
        /\ \A i \in 1..Len(seriesData.Episodes) :
              /\ HasField(ItemBlocks(rss.xml)[i], "guid")
              /\ AttrValue(GuidLine(i), "isPermaLink") = <<"false">>
              /\ LineText(GuidLine(i)) = seriesData.Episodes[i].GUID
              /\ LineText(GuidLine(i)) # seriesData.Episodes[i].RSSGUID
              /\ LineText(GuidLine(i)) # seriesData.GUID

C13_Witness ==
    /\ rss.returned
    /\ seriesData.Episodes = <<EpisodeC, EpisodeB>>
    /\ LineText(GuidLine(2)) = <<"e", "2">>
    /\ EpisodeB.RSSGUID = <<"r", "2">> /\ seriesData.GUID = <<"s", "1">>
    /\ AttrValue(GuidLine(2), "isPermaLink") = <<"false">>

------------------------------------------------------------------------------
\* the instant of episode i's date, which parses
Instant(i) == ParseRFC3339(episodes[i].PublicationDate).unix

Parses(i) == ParseRFC3339(episodes[i].PublicationDate).ok

\* episode i's date is a valid timestamp written in UTC, with "Z"
ZLayout(i) ==
    /\ Parses(i)
    /\ episodes[i].PublicationDate[Len(episodes[i].PublicationDate)] = "Z"

\* the year, month and day episode i's date shows
DayOf(i) ==
    <<Civil(ParseRFC3339(episodes[i].PublicationDate)).year,
      Civil(ParseRFC3339(episodes[i].PublicationDate)).month,
      Civil(ParseRFC3339(episodes[i].PublicationDate)).day>>

\* the dated entries are neither newest first nor oldest first
OutOfOrder ==
    /\ \E i, j \in 1..Len(episodes) :
          i < j /\ Parses(i) /\ Parses(j) /\ Instant(i) < Instant(j)
    /\ \E i, j \in 1..Len(episodes) :
          i < j /\ Parses(i) /\ Parses(j) /\ Instant(i) > Instant(j)

\* some entry is dated after the current time
FutureDated == \E i \in 1..Len(episodes) : Parses(i) /\ Instant(i) > now.unix

BothReturned == latest.returned /\ latestStringMax.returned

\* the two functions gave different answers
Differ == latest.date # latestStringMax.date \/ latest.err # latestStringMax.err

(* C15 as stated: the string-maximum variant and the parse-filter-maximum  *)
(* variant of getLatestEpisodeDate return different answers whenever the   *)
(* episode list is out of order or contains a future-dated entry.          *)
C15_DifferWhenUnorderedOrFuture ==
    BothReturned => ((OutOfOrder \/ FutureDated) => Differ)

(* C15 amended: the two variants are not equivalent, yet the order of the  *)
(* list and a future date alone do not separate them. They agree, in any   *)
(* order, when every date is a valid UTC ("Z") timestamp at most 7 days    *)
(* ahead. They differ when no date parses, and when all dates are valid    *)
(* UTC timestamps of which the latest is more than 7 days ahead and shows  *)
(* another calendar day than every eligible one.                           *)
C15_VariantsAgreeAndDiffer ==
    (BothReturned /\ episodes # <<>>) =>
        /\ (\A i \in 1..Len(episodes) : ZLayout(i) /\ Eligible(i)) => ~Differ
        /\ (\A i \in 1..Len(episodes) : ~Parses(i)) =>
              /\ Differ
              /\ latestStringMax.err = "nil"
              /\ \E i \in 1..Len(episodes) :
                    latestStringMax.date = episodes[i].PublicationDate
              /\ latest.err = "no valid episodes found"
        /\ ( /\ \A i \in 1..Len(episodes) : ZLayout(i)
             /\ \E i \in 1..Len(episodes) :
                   /\ ~Eligible(i)
                   /\ \A j \in 1..Len(episodes) : Instant(j) <= Instant(i)
                   /\ \A j \in 1..Len(episodes) : Eligible(j) => DayOf(j) # DayOf(i) )
           => Differ

\* an entry more than 7 days ahead separates the two functions, on a list
\* that is in order
C15_Witness ==
    /\ BothReturned
    /\ episodes = <<Dated(DateMar15), Dated(DateWeek1s)>> /\ now = NowA
    /\ ~OutOfOrder /\ FutureDated
    /\ latest.date = <<"M", "a", "r", " ", "1", "5", ",", " ", "2", "0", "2", "4">>
    /\ latestStringMax.date = <<"M", "a", "r", " ", "2", "7", ",", " ", "2", "0", "2", "4">>

------------------------------------------------------------------------------
\* the program runs, or ran, as the terminal menu
InMenu == phase \in {"running", "quit", "crashed"}

(* C16: after any sequence of key presses and result messages the menu     *)
(* cursor is a valid index into the configured series list,                *)
(* 0 <= cursor < number of series, so that every action command reading    *)
(* series[cursor] reads an existing entry, for every configuration the     *)
(* menu can start with, the empty series list included.                    *)
C16_CursorValidIndex ==
    InMenu =>
        /\ 0 <= m.cursor /\ m.cursor < Len(m.series)
        /\ \A c \in InFlight : 0 <= c.cursor /\ c.cursor < Len(m.series)
        /\ phase # "crashed"

------------------------------------------------------------------------------
\* the command of cmds that d continues, if any: same identifier
Earlier(d) == {c \in cmds : c.id = d.id}

\* the operation e reads or writes the data of the configured series s
OnSeries(e, s) ==
    /\ e.op = "GET" => SubSeq(e.target, 2, Len(e.target) - 1) = s.GUID
    /\ e.op = "WriteFile" =>
          \/ e.target = s.GUID \o <<".", "r", "s", "s">>
          \/ /\ HasSuffix(s.S3Path, <<"/">> \o e.target)
             /\ HasSuffix(e.target, <<".", "r", "s", "s">>)
    /\ e.op = "PutObject" =>
          <<"s", "3", ":", "/", "/">> \o e.target \o <<"/">> \o e.key = s.S3Path

(* C17: a menu action operates on the series that was under the cursor     *)
(* when its key was pressed: the command a key press starts holds the      *)
(* cursor of that moment and keeps it while the cursor of the menu moves,  *)
(* every request, write and upload it performs is for the series at that   *)
(* position, and a step of a command, or the delivery of its result,       *)
(* leaves the cursor of the menu where it is.                              *)
C17_ActsOnSeriesAtKeyPress ==
    [][/\ \A d \in cmds' :
            d.kind \in ActionKinds =>
               /\ Earlier(d) = {} => d.cursor = m.cursor /\ d.io = <<>>
               /\ \A c \in Earlier(d) :
                     /\ d.cursor = c.cursor /\ d.kind = c.kind
                     /\ \A i \in (Len(c.io) + 1)..Len(d.io) :
                           /\ c.cursor < Len(m.series)
                           /\ OnSeries(d.io[i], m.series[c.cursor + 1])
       /\ cmds' # cmds => m'.cursor = m.cursor
       /\ m'.series = m.series]_vars

\* an action started on one series has written or uploaded, and the cursor
\* is on another series
C17_Witness ==
    /\ phase = "running"
    /\ \E c \in InFlight :
          /\ c.cursor # m.cursor
          /\ Sinks(c) # {}
          /\ \A i \in 1..Len(c.io) : OnSeries(c.io[i], m.series[c.cursor + 1])
          /\ \A i \in Fetches(c) : ~OnSeries(c.io[i], m.series[m.cursor + 1])

------------------------------------------------------------------------------
(* C18: the upload action is never started when the storage client failed  *)
(* to initialise: with a nil s3Client the upload key, in whatever state it *)
(* is pressed, returns the model unchanged (loading, status and cursor     *)
(* included) and no command, so that no upload command exists, none has    *)
(* reached the call of UploadRSSContent, and nothing was put.              *)
C18_NoUploadWithoutClient ==
    (InMenu /\ ~m.s3Client) =>
        /\ UpdateOnKey(m, "u") = [m |-> m, cmd |-> ""]
        /\ \A c \in cmds :
              /\ c.kind # "generateAndUploadFeed"
              /\ c.pc # "upload"
              /\ Positions(c, {"PutObject"}) = {}

\* the menu without a storage client shows the result of an action and is
\* ready for the next: the generate key would start a command here, the
\* upload key does not
C18_Witness ==
    /\ phase = "running" /\ ~m.s3Client
    /\ m.series # <<>> /\ ~m.loading /\ m.status # <<>>
    /\ UpdateOnKey(m, "enter").cmd = "generateFeed"
    /\ UpdateOnKey(m, "u").cmd = ""
------------------------------------------------------------------------------
\* the actions whose key sets loading
LoadingKinds == {"generateFeed", "generateAndUploadFeed", "showLatestEpisodeDate"}

\* the action started as number id has not delivered its result
Awaited(id) == \E c \in InFlight : c.id = id

\* the action started as number id has delivered its result
Delivered(id) == started >= id /\ ~Awaited(id)

\* the result of c is received in this step
Received(c) == c.kind \in ActionKinds /\ \A d \in cmds' : d.id # c.id

(* C14: every menu action that is started delivers, unless the user quits  *)
(* first, exactly one result message: it is pending until the message is   *)
(* received and never again; on receipt the menu clears loading and sets   *)
(* the status line to the message; so, the commands and the event loop     *)
(* running, the menu does not stay loading forever, and loading is true    *)
(* only while an action that sets it is pending.                           *)
C14_ActionDeliversResult ==
    /\ \A id \in 1..MaxCommands : Awaited(id) ~> (Delivered(id) \/ phase = "quit")
    /\ m.loading ~> (~m.loading \/ phase = "quit")
    /\ [](m.loading => \E c \in InFlight : c.kind \in LoadingKinds)
    /\ [][/\ \A c \in cmds :
               Received(c) => c.pc = "return" /\ ~m'.loading /\ m'.status = c.msg
          /\ \A d \in cmds' :
               d.kind \in ActionKinds /\ Earlier(d) = {} => d.id > started]_vars
====
